---------------------------- MODULE Spec2Model ----------------------------
(***************************************************************************)
(* A model of oxibooru_toolkit: the upload pipeline of main.rs             *)
(* (upload_posts), the per-file reconciliation of post_utils.rs            *)
(* (create_post, make_post_with_metadata, merge_source,                    *)
(* merge_vecs_unique) and the remote server as a source of responses.      *)
(*                                                                         *)
(* Text is modelled as a sequence of one-character strings, so that        *)
(* trimming, splitting, replacing and lower-casing are computed and not    *)
(* assumed.  Option<T> is a record: None, or Some(x).                      *)
(***************************************************************************)
EXTENDS Integers, Sequences, FiniteSets, TLC

(***************************************************************************)
(* Option<T>                                                               *)
(***************************************************************************)
None == [some |-> FALSE]

Some(x) == [some |-> TRUE, v |-> x]

is_some(o) == o.some

is_none(o) == ~o.some

unwrap(o) == o.v

(***************************************************************************)
(* Sequences and text.                                                     *)
(***************************************************************************)
Range(s) == {s[i] : i \in 1..Len(s)}

NoDup(s) == \A i, j \in 1..Len(s) : s[i] = s[j] => i = j

\* All the orders in which the elements of a finite set can be listed: the
\* iteration order of a HashSet is unspecified.
Orderings(S) ==
    {s \in [1..Cardinality(S) -> S] : \A i, j \in 1..Cardinality(S) : s[i] = s[j] => i = j}

RECURSIVE join(_, _)
\* [String]::join(sep)
join(ss, sep) ==
    IF ss = <<>> THEN <<>>
    ELSE IF Len(ss) = 1 THEN ss[1]
    ELSE ss[1] \o sep \o join(Tail(ss), sep)

\* char::is_whitespace, on the characters of the model's alphabet
is_whitespace(c) == c \in {" ", "\n", "\r", "\t"}

RECURSIVE trim_start(_)
trim_start(s) ==
    IF s # <<>> /\ is_whitespace(Head(s)) THEN trim_start(Tail(s)) ELSE s

RECURSIVE trim_end(_)
trim_end(s) ==
    IF s # <<>> /\ is_whitespace(s[Len(s)]) THEN trim_end(SubSeq(s, 1, Len(s) - 1)) ELSE s

\* str::trim
trim(s) == trim_end(trim_start(s))

RECURSIVE split(_, _)
\* str::split(c): the pieces between the occurrences of c; an empty text
\* gives one empty piece.
split(s, c) ==
    IF \E i \in 1..Len(s) : s[i] = c
    THEN LET i == CHOOSE k \in 1..Len(s) : s[k] = c /\ \A j \in 1..(k - 1) : s[j] # c
         IN  <<SubSeq(s, 1, i - 1)>> \o split(SubSeq(s, i + 1, Len(s)), c)
    ELSE <<s>>

\* str::replace(from, to) for one-character patterns
replace(s, from, to) == [i \in 1..Len(s) |-> IF s[i] = from THEN to ELSE s[i]]

\* str::split_whitespace: the non-empty pieces between runs of whitespace
split_whitespace(s) ==
    LET norm   == [i \in 1..Len(s) |-> IF is_whitespace(s[i]) THEN " " ELSE s[i]]
        pieces == split(norm, " ")
    IN  SelectSeq(pieces, LAMBDA p : p # <<>>)

\* str::lines: split at "\n", a final empty piece dropped, a "\r" before the
\* line break dropped.
lines(s) ==
    LET pieces == split(s, "\n")
        kept   == IF pieces[Len(pieces)] = <<>>
                  THEN SubSeq(pieces, 1, Len(pieces) - 1) ELSE pieces
        strip(l) == IF l # <<>> /\ l[Len(l)] = "\r" THEN SubSeq(l, 1, Len(l) - 1) ELSE l
    IN  [i \in 1..Len(kept) |-> strip(kept[i])]

\* char::to_lowercase on ASCII letters
LowerChar(c) ==
    CASE c = "A" -> "a" [] c = "B" -> "b" [] c = "C" -> "c" [] c = "D" -> "d"
      [] c = "E" -> "e" [] c = "F" -> "f" [] c = "G" -> "g" [] c = "H" -> "h"
      [] c = "I" -> "i" [] c = "J" -> "j" [] c = "K" -> "k" [] c = "L" -> "l"
      [] c = "M" -> "m" [] c = "N" -> "n" [] c = "O" -> "o" [] c = "P" -> "p"
      [] c = "Q" -> "q" [] c = "R" -> "r" [] c = "S" -> "s" [] c = "T" -> "t"
      [] c = "U" -> "u" [] c = "V" -> "v" [] c = "W" -> "w" [] c = "X" -> "x"
      [] c = "Y" -> "y" [] c = "Z" -> "z" [] OTHER -> c

\* str::to_lowercase
to_lowercase(s) == [i \in 1..Len(s) |-> LowerChar(s[i])]


(***************************************************************************)
(* JSON values of the .json sidecar (serde_json::Value), as far as the     *)
(* reader looks at them: a missing key, a string, an array, anything else. *)
(***************************************************************************)
JAbsent == [t |-> "absent"]

JStr(s) == [t |-> "str", v |-> s]

JArr(a) == [t |-> "arr", v |-> a]

JOther == [t |-> "other"]

\* Value::get(key).and_then(Value::as_str)
as_str(j) == IF j.t = "str" THEN Some(j.v) ELSE None

\* Value::get(key).and_then(Value::as_array)
as_array(j) == IF j.t = "arr" THEN Some(j.v) ELSE None

(***************************************************************************)
(* The text literals of post_utils.rs.                                     *)
(***************************************************************************)
S_safe == <<"s", "a", "f", "e">>

S_s == <<"s">>

S_sketchy == <<"s", "k", "e", "t", "c", "h", "y">>

S_questionable == <<"q", "u", "e", "s", "t", "i", "o", "n", "a", "b", "l", "e">>

S_q == <<"q">>

S_unsafe == <<"u", "n", "s", "a", "f", "e">>

S_explicit == <<"e", "x", "p", "l", "i", "c", "i", "t">>

S_e == <<"e">>

S_creator == <<"c", "r", "e", "a", "t", "o", "r", ":">>

S_mobius ==
    <<"a", "r", "t", ".", "m", "o", "b", "i", "u", "s", ".", "s", "o", "c", "i", "a", "l">>

S_sankaku == <<"s", "a", "n", "k", "a", "k", "u">>

S_danbooru == <<"d", "a", "n", "b", "o", "o", "r", "u">>

S_rule34 == <<"r", "u", "l", "e", "3", "4">>

S_safebooru == <<"s", "a", "f", "e", "b", "o", "o", "r", "u">>

(***************************************************************************)
(* make_post_with_metadata: the draft built from the sidecars of a file.   *)
(* A sidecar file is absent, cannot be opened, or has a content; the       *)
(* content of the .json sidecar is malformed or a JSON value.              *)
(***************************************************************************)
\* The tags of the .txt sidecar: one per line, trimmed, spaces to underscores.
txt_tags(content) ==
    LET ls == split(trim(content), "\n")
    IN  [i \in 1..Len(ls) |-> replace(trim(ls[i]), " ", "_")]

\* The source of the draft: `source`, then `url` on a line of its own.
json_source(j) ==
    LET source == as_str(j.source)
        url    == as_str(j.url)
    IN  IF is_some(url)
        THEN Some(IF is_some(source) THEN unwrap(source) \o <<"\n">> \o unwrap(url)
                  ELSE unwrap(url))
        ELSE source

\* The tags of the .json sidecar, read by the convention of the website.
json_tags(j, website) ==
    IF website \in {S_mobius, S_sankaku, S_danbooru}
    THEN LET arr == as_array(j.tags)
         IN  IF is_some(arr)
             THEN LET strs == SelectSeq(unwrap(arr), LAMBDA tag : is_some(as_str(tag)))
                  IN  Some([i \in 1..Len(strs) |->
                              replace(to_lowercase(strs[i].v), " ", "_")])
             ELSE None
    ELSE IF website \in {S_rule34, S_safebooru}
    THEN LET str == as_str(j.tags)
         IN  IF is_some(str) THEN Some(split_whitespace(unwrap(str))) ELSE None
    ELSE LET str == as_str(j.tags)
         IN  IF is_some(str)
             THEN LET toks == split(unwrap(str), ",")
                  IN  Some([i \in 1..Len(toks) |-> trim(toks[i])])
             ELSE None

\* The creator:<username> tag pushed after the tags of the sidecar.
with_username(tags, j) ==
    LET username == as_str(j.username)
    IN  IF is_some(username)
        THEN Some((IF is_some(tags) THEN unwrap(tags) ELSE <<>>)
                  \o <<S_creator \o unwrap(username)>>)
        ELSE tags

\* The safety of the .json sidecar: `safety`, else `rating`, lower-cased;
\* an unrecognized text leaves it None.
json_safety(j) ==
    LET safety_str == IF is_some(as_str(j.safety)) THEN as_str(j.safety)
                      ELSE as_str(j.rating)
    IN  IF is_some(safety_str)
        THEN LET l == to_lowercase(unwrap(safety_str))
             IN  IF l \in {S_safe, S_s} THEN Some("Safe")
                 ELSE IF l \in {S_sketchy, S_questionable, S_q} THEN Some("Sketchy")
                 ELSE IF l \in {S_unsafe, S_explicit, S_e} THEN Some("Unsafe")
                 ELSE None
        ELSE None

\* Mutant of default_safety: the default is forgotten.
default_safety_forgotten(safety) == safety

\* The safety of a draft whose sidecars set none.
default_safety(safety) == IF is_none(safety) THEN Some("Unsafe") ELSE safety

make_post_with_metadata(token, sc) ==
    LET post0 == [version |-> None, tags |-> None, safety |-> None, source |-> None,
                  relations |-> None, notes |-> None, flags |-> None,
                  content_url |-> None, content_token |-> Some(token),
                  anonymous |-> Some(FALSE)]
        artist == None
        post1 == IF sc.txt.kind = "text"
                 THEN [post0 EXCEPT !.tags = Some(txt_tags(sc.txt.content))]
                 ELSE post0
    IN  IF sc.txt.kind = "unreadable" THEN [kind |-> "Err", err |-> "IOError"]
        ELSE IF sc.json.kind = "absent"
        THEN [kind |-> "Ok",
              post |-> [post1 EXCEPT !.safety = default_safety(post1.safety)],
              artist |-> artist]
        ELSE IF sc.json.kind = "unreadable" THEN [kind |-> "Err", err |-> "IOError"]
        ELSE IF sc.json.kind = "malformed"
        THEN [kind |-> "Err", err |-> "ResponseParsingError"]
        ELSE LET j == sc.json.value
             IN  IF j.category.t = "absent" THEN [kind |-> "Panic"]
                 ELSE LET website == IF is_some(as_str(j.category))
                                     THEN unwrap(as_str(j.category)) ELSE <<>>
                          post2 == [post1 EXCEPT
                                      !.source = json_source(j),
                                      !.tags = with_username(json_tags(j, website), j),
                                      !.safety = json_safety(j)]
                      IN  [kind |-> "Ok",
                           post |-> [post2 EXCEPT !.safety = default_safety(post2.safety)],
                           artist |-> artist]

(***************************************************************************)
(* The merge of the update-in-place path.  A HashSet is iterated in an     *)
(* unspecified order: each operator gives the set of results the build can *)
(* produce.                                                                *)
(***************************************************************************)
\* The elements a HashSet holds after `extend` with the two optional vectors.
unique_of(vec1, vec2) ==
    (IF is_some(vec1) THEN Range(unwrap(vec1)) ELSE {})
        \cup (IF is_some(vec2) THEN Range(unwrap(vec2)) ELSE {})

\* Mutant of merge_vecs_unique: the vectors are chained without the HashSet.
merge_vecs_chained(vec1, vec2) ==
    {Some((IF is_some(vec1) THEN unwrap(vec1) ELSE <<>>)
          \o (IF is_some(vec2) THEN unwrap(vec2) ELSE <<>>))}

merge_vecs_unique(vec1, vec2) ==
    LET unique_tags == unique_of(vec1, vec2)
    IN  IF unique_tags # {}
        THEN {Some(o) : o \in Orderings(unique_tags)}
        ELSE {None}

\* Mutant of merge_source: the lines are chained without the HashSet.
merge_source_chained(o1, o2) ==
    LET chained == (IF is_some(o1) THEN lines(unwrap(o1)) ELSE <<>>)
                       \o (IF is_some(o2) THEN lines(unwrap(o2)) ELSE <<>>)
    IN  IF chained = <<>> THEN {None} ELSE {Some(join(chained, <<"\n">>))}

merge_source(o1, o2) ==
    LET unique_lines ==
            (IF is_some(o1) THEN Range(lines(unwrap(o1))) ELSE {})
                \cup (IF is_some(o2) THEN Range(lines(unwrap(o2))) ELSE {})
    IN  IF unique_lines = {}
        THEN {None}
        ELSE {Some(join(o, <<"\n">>)) : o \in Orderings(unique_lines)}

(***************************************************************************)
(* create_post, between the response of the temporary upload and the       *)
(* request it sends last.  A distance is in ten-thousandths.               *)
(***************************************************************************)
THRESHOLD == 7500

\* Mutant of is_related: the comparison is strict.
is_related_strictly(similar_post) == similar_post.distance > THRESHOLD

\* .filter(|similar_post| similar_post.distance >= 0.75)
is_related(similar_post) == similar_post.distance >= THRESHOLD

\* The draft with the relations taken from the similar posts.
with_relations(post, similar) ==
    IF similar # <<>>
    THEN LET kept == SelectSeq(similar, is_related)
         IN  [post EXCEPT !.relations = Some([i \in 1..Len(kept) |-> unwrap(kept[i].post.id)])]
    ELSE post

\* The first name of every tag of the remote post that has a name.
exact_tags_of(exact) ==
    IF is_some(exact.tags)
    THEN LET named == SelectSeq(unwrap(exact.tags), LAMBDA tag_resource : tag_resource # <<>>)
         IN  Some([i \in 1..Len(named) |-> named[i][1]])
    ELSE None

\* The ids of the relations of the remote post.
exact_relations_of(exact) ==
    IF is_some(exact.relations)
    THEN Some([i \in 1..Len(unwrap(exact.relations)) |-> unwrap(exact.relations)[i].id])
    ELSE None

\* The safety submitted by an update.
merged_safety(exact, post) ==
    IF is_some(post.safety) THEN post.safety
    ELSE IF is_some(exact.safety) THEN exact.safety
    ELSE Some("Unsafe")

\* Mutant of update_version: the version is taken from the draft, which has
\* none, instead of the exact match of this search.
update_version_of_draft(exact, post) == post.version

\* The version an update carries.
update_version(exact, post) == exact.version

\* The posts an update of the exact match can submit (one per iteration order).
merged_posts(exact, post) ==
    {[version |-> update_version(exact, post),
      tags |-> t,
      safety |-> merged_safety(exact, post),
      source |-> s,
      relations |-> r,
      notes |-> None, flags |-> None, content_url |-> None, content_token |-> None,
      anonymous |-> Some(FALSE)] :
        t \in merge_vecs_unique(exact_tags_of(exact), post.tags),
        s \in merge_source(exact.source, post.source),
        r \in merge_vecs_unique(exact_relations_of(exact), post.relations)}

\* if exact_post.is_some(): the update-in-place path is taken.
takes_update(exact_post) == is_some(exact_post)

\* Mutant of update_key: the version of the exact match is passed as the id.
update_key_by_version(exact) == unwrap(exact.version)

\* The id an update is keyed by.
update_key(exact) == unwrap(exact.id)

(***************************************************************************)
(* Bounds of the model, and the inputs the actions draw from.              *)
(***************************************************************************)
\* The most files get_files returns.
MaxFiles == 2

\* The largest configured retry_attempts.
MaxRetryAttempts == 2

\* The versions a remote post can have: 1..MaxVersion.
MaxVersion == 2

\* let mut delay = Duration::from_millis(100)
INITIAL_DELAY == 100

Configs ==
    [retry_attempts : 0..MaxRetryAttempts, skip_on_error : BOOLEAN,
     delete_files_in_progress : BOOLEAN, delete_folder : BOOLEAN, timeout : {0, 30}]

T_a == <<"a">>

T_b == <<"b">>

T_c == <<"c">>

T_u1 == <<"u", "1">>

T_u2 == <<"u", "2">>

\* The editable fields of a remote post: none set; one tag, a safety, a
\* one-line source and one relation; tags with a repeated name and a tag
\* without a name, no safety, a two-line source and two relations.
RemoteMeta ==
    {[tags |-> None, safety |-> None, source |-> None, relations |-> None],
     [tags |-> Some(<<<<T_a>>>>), safety |-> Some("Safe"),
      source |-> Some(T_u1), relations |-> Some(<<[id |-> 7]>>)],
     [tags |-> Some(<<<<T_a>>, <<T_b, T_a>>, <<>>, <<T_a, T_c>>>>), safety |-> None,
      source |-> Some(T_u1 \o <<"\n">> \o T_u2 \o <<"\n">>),
      relations |-> Some(<<[id |-> 8], [id |-> 7]>>)]}

\* The posts the reverse search can report as the exact match.
RemotePosts ==
    {[id |-> Some(i), version |-> Some(v), tags |-> m.tags, safety |-> m.safety,
      source |-> m.source, relations |-> m.relations] :
        i \in {42, 43}, v \in 1..MaxVersion, m \in RemoteMeta}

Similar(i, d) == [post |-> [id |-> Some(i)], distance |-> d]

\* The similar posts the reverse search can report.
SimilarLists ==
    {<<>>,
     <<Similar(7, 7499)>>,
     <<Similar(7, THRESHOLD), Similar(8, 7499)>>,
     <<Similar(9, 7501), Similar(7, THRESHOLD)>>}

NoFile == [kind |-> "absent"]

TxtFile(content) == [kind |-> "text", content |-> content]

JsonFile(source, url, category, tags, username, safety, rating) ==
    [kind |-> "value",
     value |-> [source |-> source, url |-> url, category |-> category, tags |-> tags,
                username |-> username, safety |-> safety, rating |-> rating]]

\* The sidecars a media file can have.
Sidecars ==
    {[txt |-> NoFile, json |-> NoFile],
     [txt |-> [kind |-> "unreadable"], json |-> NoFile],
     [txt |-> TxtFile(<<"a", " ", "b", "\n", "a", " ", "b", "\n">>), json |-> NoFile],
     [txt |-> TxtFile(<<"b", "\n", " ", "c">>), json |-> NoFile],
     [txt |-> NoFile, json |-> [kind |-> "unreadable"]],
     [txt |-> NoFile, json |-> [kind |-> "malformed"]],
     [txt |-> NoFile,
      json |-> JsonFile(JAbsent, JAbsent, JAbsent, JAbsent, JAbsent, JStr(S_safe), JAbsent)],
     [txt |-> NoFile,
      json |-> JsonFile(JAbsent, JAbsent, JOther, JAbsent, JAbsent,
                        JStr(<<"S", "a", "f", "e">>), JAbsent)],
     [txt |-> TxtFile(<<"b">>),
      json |-> JsonFile(JStr(T_u1), JStr(T_u1), JStr(S_danbooru),
                        JArr(<<JStr(<<"A">>), JOther, JStr(T_a)>>), JAbsent,
                        JStr(S_sketchy), JStr(S_e))],
     [txt |-> NoFile,
      json |-> JsonFile(JAbsent, JStr(T_u2), JStr(T_a), JStr(<<"a", ",", " ", "b">>),
                        JStr(T_a), JOther, JStr(<<"x">>))],
     [txt |-> NoFile,
      json |-> JsonFile(JStr(T_u2), JAbsent, JStr(S_rule34), JStr(<<"b", " ", " ", "b">>),
                        JAbsent, JAbsent, JStr(<<"E">>))]}

\* The fewer inputs of the specification of the whole batch: one remote post,
\* one list of similar posts; no sidecar, a malformed one, one without
\* `category`.
FewPosts ==
    {r \in RemotePosts : r.id = Some(42) /\ r.version = Some(1) /\ r.safety = Some("Safe")}

FewSimilarLists == {<<Similar(7, THRESHOLD), Similar(8, 7499)>>}

FewSidecars ==
    {sc \in Sidecars :
        \/ sc.txt.kind = "absent" /\ sc.json.kind \in {"absent", "malformed"}
        \/ sc.json.kind = "value" /\ sc.json.value.category = JAbsent}

\* The ids the server gives to a new post.
NewIds == {100, 101}

(***************************************************************************)
(* State.                                                                  *)
(***************************************************************************)
VARIABLES
    config,            \* Config.settings, loaded once
    files,             \* get_files(path): the files, by index
    pc,                \* where upload_posts / create_post stands
    count,             \* index of the file of the current iteration
    retries,           \* upload_posts: retries
    delay,             \* upload_posts: delay, in ms
    post_ids,          \* upload_posts: post_ids
    artists,           \* upload_posts: artists
    exact_post,        \* create_post: search_result.exact_post
    similar_posts,     \* create_post: search_result.similar_posts
    post,              \* create_post: the post submitted last
    result,            \* what create_post returned
    ret,               \* what upload_posts returned
    sent,              \* the requests of the create_post call, until it is matched
    attempts,          \* create_post calls for the current file
    total_attempts,    \* create_post calls of the batch
    creates,           \* create requests sent for the current file
    held,              \* versions delivered by earlier attempts for the current file
    succeeded,         \* <<file, id>> of every create_post call that returned Ok
    attempted,         \* the files create_post was called for
    sleeps,            \* the sleeps of the current file, in order
    deleted,           \* the files removed by delete_file: a media file or a sidecar
    folder_attempted   \* delete_folder was called

\* ApiClient::retry.
VARIABLES
    api_client,        \* the ApiClient: retry_count, backoff
    rpc,               \* where ApiClient::retry stands
    attempt,           \* retry: attempt
    calls,             \* what each invocation of func returned, in order
    naps,              \* the sleeps of retry, in order
    retry_ret          \* what retry returned

\* merge_posts.
VARIABLES
    pairs_file,        \* the file at `path`
    mpc,               \* where merge_posts stands
    posts_ids,         \* merge_posts: posts_ids
    merged_ids,        \* merge_posts: merged_ids
    pair,              \* index of the pair of the current iteration
    remove_post_version, \* merge_posts: remove_post_version
    merge_to_version,  \* merge_posts: merge_to_version
    merge_result,      \* merge_posts: result of the pair
    merge_ret,         \* what merge_posts returned
    merge_log,         \* the requests merge_posts sent, with their responses
    merge_sleeps       \* the sleeps of merge_posts, with the pair they follow

\* merge_source, applied to two sources.
VARIABLES
    opt1,              \* merge_source: opt1
    opt2,              \* merge_source: opt2
    merged_source      \* what merge_source returned, once it was applied

upload_vars ==
    <<files, pc, count, retries, delay, post_ids, artists, exact_post,
      similar_posts, post, result, ret, sent, attempts, total_attempts, creates, held,
      succeeded, attempted, sleeps, deleted, folder_attempted>>

retry_vars == <<api_client, rpc, attempt, calls, naps, retry_ret>>

merge_vars ==
    <<pairs_file, mpc, posts_ids, merged_ids, pair, remove_post_version,
      merge_to_version, merge_result, merge_ret, merge_log, merge_sleeps>>

source_vars == <<opt1, opt2, merged_source>>

vars == <<config, upload_vars, retry_vars, merge_vars, source_vars>>

locals == <<exact_post, similar_posts, post>>

loop_vars == <<count, retries, delay, post_ids, artists>>

ghosts_of_file == <<attempts, creates, held, sleeps>>

fs_vars == <<deleted, folder_attempted>>

Err(e) == [kind |-> "Err", err |-> e]

\* merge_source is not applied on its own.
SourceIdle ==
    /\ opt1 = None
    /\ opt2 = None
    /\ merged_source = None

\* ApiClient::retry is not running.
RetryIdle ==
    /\ api_client = [retry_count |-> 0, backoff |-> 0]
    /\ rpc = "idle"
    /\ attempt = 0
    /\ calls = <<>>
    /\ naps = <<>>
    /\ retry_ret = None

\* merge_posts is not running.
MergeIdle ==
    /\ pairs_file = [kind |-> "absent"]
    /\ mpc = "idle"
    /\ posts_ids = <<>>
    /\ merged_ids = <<>>
    /\ pair = 1
    /\ remove_post_version = None
    /\ merge_to_version = None
    /\ merge_result = None
    /\ merge_ret = None
    /\ merge_log = <<>>
    /\ merge_sleeps = <<>>

\* upload_posts is not running.
UploadIdle ==
    /\ files = <<>>
    /\ pc = "idle"
    /\ count = 1
    /\ retries = 0
    /\ delay = INITIAL_DELAY
    /\ post_ids = <<>>
    /\ artists = <<>>
    /\ exact_post = None
    /\ similar_posts = <<>>
    /\ post = None
    /\ result = None
    /\ ret = None
    /\ sent = <<>>
    /\ attempts = 0
    /\ total_attempts = 0
    /\ creates = 0
    /\ held = {}
    /\ succeeded = <<>>
    /\ attempted = {}
    /\ sleeps = <<>>
    /\ deleted = {}
    /\ folder_attempted = FALSE

Init ==
    /\ RetryIdle
    /\ MergeIdle
    /\ SourceIdle
    /\ config \in Configs
    /\ files \in {[i \in 1..n |-> i] : n \in 0..MaxFiles}
    /\ pc = "for"
    /\ count = 1
    /\ retries = 0
    /\ delay = INITIAL_DELAY
    /\ post_ids = <<>>
    /\ artists = <<>>
    /\ exact_post = None
    /\ similar_posts = <<>>
    /\ post = None
    /\ result = None
    /\ ret = None
    /\ sent = <<>>
    /\ attempts = 0
    /\ total_attempts = 0
    /\ creates = 0
    /\ held = {}
    /\ succeeded = <<>>
    /\ attempted = {}
    /\ sleeps = <<>>
    /\ deleted = {}
    /\ folder_attempted = FALSE

(***************************************************************************)
(* upload_posts and create_post, one action per step between two awaits.   *)
(***************************************************************************)
file == files[count]

\* for (count, file) in files.iter().enumerate(): the head of an iteration.
ForEachFile ==
    /\ pc = "for"
    /\ IF count <= Len(files)
       THEN /\ retries' = 0
            /\ delay' = INITIAL_DELAY
            /\ attempts' = 0
            /\ creates' = 0
            /\ held' = {}
            /\ sleeps' = <<>>
            /\ pc' = "call"
       ELSE /\ pc' = "finish"
            /\ UNCHANGED <<retries, delay, attempts, creates, held, sleeps>>
    /\ UNCHANGED <<config, files, count, post_ids, artists, locals, result, ret, sent,
                   total_attempts, succeeded, attempted, fs_vars>>
    /\ UNCHANGED <<retry_vars, merge_vars, source_vars>>

\* post_utils::create_post(client, &file): the call, up to the reverse search
\* request.
CallCreatePost ==
    /\ pc = "call"
    /\ attempts' = attempts + 1
    /\ total_attempts' = total_attempts + 1
    /\ attempted' = attempted \cup {file}
    /\ exact_post' = None
    /\ similar_posts' = <<>>
    /\ post' = None
    /\ result' = None
    /\ sent' = <<[op |-> "reverse_search", answered |-> FALSE,
                 exact_id |-> None, exact_version |-> None]>>
    /\ pc' = "reverse_search"
    /\ UNCHANGED <<config, files, loop_vars, ret, creates, held, succeeded, sleeps, fs_vars>>
    /\ UNCHANGED <<retry_vars, merge_vars, source_vars>>

\* create_post returns r to the match of upload_posts; its locals are dropped.
Returns(r) ==
    /\ result' = r
    /\ pc' = "match"
    /\ succeeded' = IF r.kind = "Ok" THEN Append(succeeded, <<file, r.id>>) ELSE succeeded
    /\ held' = held \cup (IF is_some(exact_post) THEN {unwrap(exact_post).version} ELSE {})
    /\ exact_post' = None
    /\ similar_posts' = <<>>
    /\ post' = None

\* Mutant of ReverseSearchFails: the error is dropped and the temporary upload
\* is requested all the same.
ReverseSearchFails_goes_on ==
    /\ pc = "reverse_search"
    /\ sent' = <<sent[1], [op |-> "upload", token |-> None, made |-> "none"]>>
    /\ pc' = "upload"
    /\ UNCHANGED <<config, files, loop_vars, locals, result, ret, attempts,
                   total_attempts, creates, held, succeeded, attempted, sleeps, fs_vars>>
    /\ UNCHANGED <<retry_vars, merge_vars, source_vars>>

\* The reverse search failed: `?` returns the error.
ReverseSearchFails ==
    /\ pc = "reverse_search"
    /\ Returns(Err("Transport"))
    /\ UNCHANGED <<config, files, loop_vars, ret, sent, attempts, total_attempts,
                   creates, attempted, sleeps, fs_vars>>
    /\ UNCHANGED <<retry_vars, merge_vars, source_vars>>

\* The reverse search answered; the temporary upload is requested.
ReverseSearchReturns(posts, similars) ==
    /\ pc = "reverse_search"
    /\ \E e \in {None} \cup {Some(r) : r \in posts}, sim \in similars :
          /\ exact_post' = e
          /\ similar_posts' = sim
          /\ sent' = <<[op |-> "reverse_search", answered |-> TRUE,
                       exact_id |-> IF is_some(e) THEN unwrap(e).id ELSE None,
                       exact_version |-> IF is_some(e) THEN unwrap(e).version ELSE None],
                      [op |-> "upload", token |-> None, made |-> "none"]>>
    /\ pc' = "upload"
    /\ UNCHANGED <<config, files, loop_vars, post, result, ret, attempts, total_attempts,
                   creates, held, succeeded, attempted, sleeps, fs_vars>>
    /\ UNCHANGED <<retry_vars, merge_vars, source_vars>>

\* The temporary upload failed: `?` returns the error.
UploadFails ==
    /\ pc = "upload"
    /\ Returns(Err("Transport"))
    /\ UNCHANGED <<config, files, loop_vars, ret, sent, attempts, total_attempts,
                   creates, attempted, sleeps, fs_vars>>
    /\ UNCHANGED <<retry_vars, merge_vars, source_vars>>

\* The request create_post sends last for the draft: an update of the exact
\* match with the merged post, or a create with the draft.
last_requests(exact, draft) ==
    IF takes_update(exact)
    THEN {[op |-> "update", id |-> Some(update_key(unwrap(exact))), post |-> p,
           draft |-> draft] :
            p \in merged_posts(unwrap(exact), draft)}
    ELSE {[op |-> "create", id |-> None, post |-> draft, draft |-> draft]}

\* The temporary upload answered with a token; the draft is built from the
\* sidecars, the relations are set, and the update or the create is requested.
\* The log keeps the token, how the draft came out, the sidecar read and the
\* artist create_post holds.
UploadReturns(sidecars) ==
    /\ pc = "upload"
    /\ \E sc \in sidecars :
          LET made == make_post_with_metadata("token", sc)
              log  == <<sent[1], [op |-> "upload", token |-> Some("token"),
                                  made |-> made.kind]>>
          IN  CASE made.kind = "Err" ->
                     /\ Returns(Err(made.err))
                     /\ sent' = log
                     /\ UNCHANGED creates
                [] made.kind = "Panic" ->
                     /\ pc' = "panicked"
                     /\ sent' = log
                     /\ UNCHANGED <<locals, result, creates, held, succeeded>>
                [] OTHER ->
                     \E req \in last_requests(exact_post, with_relations(made.post, similar_posts)) :
                        /\ post' = Some(req.post)
                        /\ sent' = Append(log,
                              [op |-> req.op, id |-> req.id, post |-> req.post,
                               draft |-> req.draft, sidecar |-> sc,
                               artist |-> made.artist, response |-> None])
                        /\ creates' = IF req.op = "create" THEN creates + 1 ELSE creates
                        /\ pc' = req.op
                        /\ UNCHANGED <<exact_post, similar_posts, result, held, succeeded>>
    /\ UNCHANGED <<config, files, loop_vars, ret, attempts, total_attempts,
                   attempted, sleeps, fs_vars>>
    /\ UNCHANGED <<retry_vars, merge_vars, source_vars>>

\* What create_post returns for the response to its last request:
\* Ok(post) => Ok((post.id.unwrap(), artist)), Err(e) => Err(e).
last_result(response, artist) ==
    IF response.kind = "Ok"
    THEN [kind |-> "Ok", id |-> unwrap(response.id), artist |-> artist]
    ELSE Err(response.err)

\* The response to the last request arrives and create_post returns.
Responds(response) ==
    /\ sent' = [sent EXCEPT ![Len(sent)].response = Some(response)]
    /\ Returns(last_result(response, sent[Len(sent)].artist))

\* update_post answered: the updated post, or an error.
UpdateReturns ==
    /\ pc = "update"
    /\ \/ Responds([kind |-> "Ok", id |-> sent[Len(sent)].id])
       \/ \E e \in {"VersionConflict", "Transport"} : Responds(Err(e))
    /\ UNCHANGED <<config, files, loop_vars, ret, attempts, total_attempts,
                   creates, attempted, sleeps, fs_vars>>
    /\ UNCHANGED <<retry_vars, merge_vars, source_vars>>

\* create_post_from_file_path answered: the new post, or an error.
CreateReturns(ids) ==
    /\ pc = "create"
    /\ \/ \E id \in ids : Responds([kind |-> "Ok", id |-> Some(id)])
       \/ Responds(Err("Transport"))
    /\ UNCHANGED <<config, files, loop_vars, ret, attempts, total_attempts,
                   creates, attempted, sleeps, fs_vars>>
    /\ UNCHANGED <<retry_vars, merge_vars, source_vars>>

(***************************************************************************)
(* upload_posts: the match on what create_post returned.                   *)
(***************************************************************************)
\* Mutant of may_retry: the guard lets one retry too many through.
may_retry_once_more(n, cfg) == n <= cfg.retry_attempts

\* Err(e) if retries < config.settings.retry_attempts
may_retry(n, cfg) == n < cfg.retry_attempts

\* What delete_file can remove: nothing when fs::remove_file(path) fails;
\* otherwise the media file, then the .json sidecar when it exists and its
\* removal succeeds, then the .txt sidecar likewise (a failure on the .json
\* returns before the .txt).
DeleteOutcomes ==
    {{}, {"media"}, {"media", "json"}, {"media", "txt"}, {"media", "json", "txt"}}

\* The fewer outcomes of the specification of the whole batch: nothing
\* removed, the media file alone, the media file and both sidecars.
FewDeleteOutcomes == {o \in DeleteOutcomes : Cardinality(o) # 2}

\* delete_file(path): the files it removed.
delete_file(path, removed) == {[file |-> path, ext |-> e] : e \in removed}

\* Mutant of deletes_in_progress: the setting is not consulted.
deletes_whatever_the_setting(cfg) == TRUE

\* if config.settings.delete_files_in_progress
deletes_in_progress(cfg) == cfg.delete_files_in_progress

\* Ok((post_id, artist)): the id is pushed, the file deleted when configured.
MatchOk(outcomes) ==
    /\ pc = "match"
    /\ result.kind = "Ok"
    /\ post_ids' = Append(post_ids, result.id)
    /\ artists' = Append(artists, result.artist)
    /\ IF deletes_in_progress(config)
       THEN \E o \in outcomes : deleted' = deleted \cup delete_file(file, o)
       ELSE UNCHANGED deleted
    /\ sent' = <<>>
    /\ pc' = "pace"
    /\ UNCHANGED <<config, files, count, retries, delay, locals, result, ret,
                   ghosts_of_file, total_attempts, succeeded, attempted, folder_attempted>>
    /\ UNCHANGED <<retry_vars, merge_vars, source_vars>>

\* Err(e) with retries left: count it, sleep(delay), lengthen the delay.
MatchRetry ==
    /\ pc = "match"
    /\ result.kind = "Err"
    /\ may_retry(retries, config)
    /\ retries' = retries + 1
    /\ sleeps' = Append(sleeps, [kind |-> "retry", ms |-> delay])
    /\ delay' = delay + config.timeout
    /\ sent' = <<>>
    /\ pc' = "call"
    /\ UNCHANGED <<config, files, count, post_ids, artists, locals, result, ret,
                   attempts, total_attempts, creates, held, succeeded, attempted, fs_vars>>
    /\ UNCHANGED <<retry_vars, merge_vars, source_vars>>

\* Mutant of MatchGiveUp: the error is returned whatever skip_on_error says.
MatchGiveUp_always_aborts ==
    /\ pc = "match"
    /\ result.kind = "Err"
    /\ ~may_retry(retries, config)
    /\ pc' = "done"
    /\ ret' = Err(result.err)
    /\ sent' = <<>>
    /\ UNCHANGED <<config, files, loop_vars, locals, result, ghosts_of_file,
                   total_attempts, succeeded, attempted, fs_vars>>
    /\ UNCHANGED <<retry_vars, merge_vars, source_vars>>

\* Err(e) with no retry left: skip the file, or return the error.
MatchGiveUp ==
    /\ pc = "match"
    /\ result.kind = "Err"
    /\ ~may_retry(retries, config)
    /\ IF config.skip_on_error
       THEN /\ pc' = "pace"
            /\ ret' = ret
       ELSE /\ pc' = "done"
            /\ ret' = Err(result.err)
    /\ sent' = <<>>
    /\ UNCHANGED <<config, files, loop_vars, locals, result, ghosts_of_file,
                   total_attempts, succeeded, attempted, fs_vars>>
    /\ UNCHANGED <<retry_vars, merge_vars, source_vars>>

\* sleep(Duration::from_millis(config.settings.timeout)), then the next file.
Pace ==
    /\ pc = "pace"
    /\ sleeps' = Append(sleeps, [kind |-> "pace", ms |-> config.timeout])
    /\ count' = count + 1
    /\ pc' = "for"
    /\ UNCHANGED <<config, files, retries, delay, post_ids, artists, locals, result, ret,
                   sent, attempts, total_attempts, creates, held, succeeded, attempted,
                   fs_vars>>
    /\ UNCHANGED <<retry_vars, merge_vars, source_vars>>

\* After the loop: delete_folder when configured, then Ok(post_ids).
Finish ==
    /\ pc = "finish"
    /\ folder_attempted' = config.delete_folder
    /\ ret' = [kind |-> "Ok", ids |-> post_ids]
    /\ pc' = "done"
    /\ UNCHANGED <<config, files, loop_vars, locals, result, sent, ghosts_of_file,
                   total_attempts, succeeded, attempted, deleted>>
    /\ UNCHANGED <<retry_vars, merge_vars, source_vars>>

Next ==
    \/ ForEachFile
    \/ CallCreatePost
    \/ ReverseSearchFails
    \/ ReverseSearchReturns(FewPosts, FewSimilarLists)
    \/ UploadFails
    \/ UploadReturns(FewSidecars)
    \/ UpdateReturns
    \/ CreateReturns({100})
    \/ MatchOk(FewDeleteOutcomes)
    \/ MatchRetry
    \/ MatchGiveUp
    \/ Pace
    \/ Finish

Spec == Init /\ [][Next]_vars

\* The batch with nothing to delete, under fairness: upload_posts runs on one
\* thread and every await returns, so a step that can be taken is taken.
InitFair ==
    /\ Init
    /\ ~config.delete_files_in_progress
    /\ ~config.delete_folder
    /\ config.timeout = 30

SpecFair == InitFair /\ [][Next]_vars /\ WF_vars(Next)

(***************************************************************************)
(* The upload of one file under every input of the model: every remote     *)
(* post, list of similar posts and sidecar.                                *)
(***************************************************************************)
InitCreatePost ==
    /\ Init
    /\ files = <<1>>
    /\ config.retry_attempts <= 1
    /\ ~config.delete_folder
    /\ config.timeout = 30

NextCreatePost ==
    \/ ForEachFile
    \/ CallCreatePost
    \/ ReverseSearchFails
    \/ ReverseSearchReturns(RemotePosts, SimilarLists)
    \/ UploadFails
    \/ UploadReturns(Sidecars)
    \/ UpdateReturns
    \/ CreateReturns(NewIds)
    \/ MatchOk(DeleteOutcomes)
    \/ MatchRetry
    \/ MatchGiveUp
    \/ Pace
    \/ Finish

SpecCreatePost == InitCreatePost /\ [][NextCreatePost]_vars

(***************************************************************************)
(* ApiClient::retry: the loop around every request of the ApiClient.       *)
(***************************************************************************)
\* The largest retry_count of an ApiClient.
MaxRetryCount == 3

\* The ApiClients: ApiClient::new(auth, backoff, wait, retry_count), backoff
\* in ms.
ApiClients == [retry_count : 0..MaxRetryCount, backoff : {50, 200}]

\* What an invocation of func can return.
FuncResults ==
    {[kind |-> "Ok", value |-> "r1"], [kind |-> "Ok", value |-> "r2"],
     Err("e1"), Err("e2")}

\* Err("Max retry attempts reached".to_string())
MAX_RETRY_ATTEMPTS_REACHED == Err("Max retry attempts reached")

InitRetry ==
    /\ UploadIdle
    /\ MergeIdle
    /\ SourceIdle
    /\ config \in {c \in Configs : c.retry_attempts = 0 /\ c.timeout = 0
                                      /\ ~c.skip_on_error /\ ~c.delete_folder
                                      /\ ~c.delete_files_in_progress}
    /\ api_client \in ApiClients
    /\ rpc = "for"
    /\ attempt = 0
    /\ calls = <<>>
    /\ naps = <<>>
    /\ retry_ret = None

\* Mutant of in_range: the range includes its upper end.
in_range_inclusive(n, client) == n <= client.retry_count

\* attempt in 0..self.retry_count
in_range(n, client) == n < client.retry_count

\* for attempt in 0..self.retry_count: the head of an iteration, and the
\* return after the loop.
RetryFor ==
    /\ rpc = "for"
    /\ IF in_range(attempt, api_client)
       THEN /\ rpc' = "func"
            /\ retry_ret' = retry_ret
       ELSE /\ rpc' = "done"
            /\ retry_ret' = MAX_RETRY_ATTEMPTS_REACHED
    /\ UNCHANGED <<api_client, attempt, calls, naps>>
    /\ UNCHANGED <<config, upload_vars, merge_vars, source_vars>>

\* Mutant of sleeps_before_next: the guard lets the final attempt sleep too.
sleeps_after_every_failure(n, client) == n < client.retry_count

\* Err(e) if attempt < self.retry_count - 1
sleeps_before_next(n, client) == n < client.retry_count - 1

\* func(self).await returned: the match.
FuncReturns ==
    /\ rpc = "func"
    /\ \E r \in FuncResults :
          /\ calls' = Append(calls, r)
          /\ IF r.kind = "Ok"
             THEN /\ retry_ret' = r
                  /\ rpc' = "done"
             ELSE IF sleeps_before_next(attempt, api_client)
             THEN /\ retry_ret' = retry_ret
                  /\ rpc' = "sleep"
             ELSE /\ retry_ret' = r
                  /\ rpc' = "done"
    /\ UNCHANGED <<api_client, attempt, naps>>
    /\ UNCHANGED <<config, upload_vars, merge_vars, source_vars>>

\* tokio::time::sleep(self.backoff).await, then the next attempt.
RetrySleep ==
    /\ rpc = "sleep"
    /\ naps' = Append(naps, api_client.backoff)
    /\ attempt' = attempt + 1
    /\ rpc' = "for"
    /\ UNCHANGED <<api_client, calls, retry_ret>>
    /\ UNCHANGED <<config, upload_vars, merge_vars, source_vars>>

NextRetry ==
    \/ RetryFor
    \/ FuncReturns
    \/ RetrySleep

SpecRetry == InitRetry /\ [][NextRetry]_vars

\* Every invocation of func so far failed.
all_failed == \A i \in 1..Len(calls) : calls[i].kind = "Err"

\* C11: when func fails on every one of the retry_count attempts, retry
\* returns the max-retries error, not the error of the last attempt.
C11_ExhaustedReturnsMaxRetries ==
    (rpc = "done" /\ all_failed /\ Len(calls) = api_client.retry_count)
        => retry_ret = MAX_RETRY_ATTEMPTS_REACHED

\* C16: retry invokes func at most retry_count times and not again after a
\* success, which it returns; it sleeps once between two consecutive
\* invocations and neither after the last one nor after a success; and every
\* sleep lasts the configured backoff.
C16_BoundedAttemptsFixedBackoff ==
    /\ Len(calls) <= api_client.retry_count
    /\ \A i \in 1..(Len(calls) - 1) : calls[i].kind = "Err"
    /\ ~all_failed => (rpc = "done" /\ retry_ret = calls[Len(calls)])
    /\ Len(naps) = IF rpc \in {"for", "func"} \/ calls = <<>>
                   THEN Len(calls) ELSE Len(calls) - 1
    /\ \A i \in 1..Len(naps) : naps[i] = api_client.backoff

\* C16, witness: with retry_count = 3 and backoff 200 the third invocation
\* succeeded after two failures and two sleeps of 200.
C16_Witness ==
    /\ rpc = "done"
    /\ api_client = [retry_count |-> 3, backoff |-> 200]
    /\ Len(calls) = 3
    /\ retry_ret = [kind |-> "Ok", value |-> "r2"]
    /\ naps = <<200, 200>>

(***************************************************************************)
(* read_number_pairs: the file of the pairs to merge.                      *)
(***************************************************************************)
DIGITS == <<"0", "1", "2", "3", "4", "5", "6", "7", "8", "9">>

\* char::to_digit(10)
is_digit(c) == \E i \in 1..Len(DIGITS) : DIGITS[i] = c

digit_of(c) == (CHOOSE i \in 1..Len(DIGITS) : DIGITS[i] = c) - 1

\* u32::MAX = 4294967295, digit by digit: it is beyond the integers of the
\* model checker, so the overflow of a parse is decided on the digits.
U32_MAX_DIGITS == <<4, 2, 9, 4, 9, 6, 7, 2, 9, 5>>

RECURSIVE strip_zeros(_)
strip_zeros(ds) == IF ds # <<>> /\ Head(ds) = 0 THEN strip_zeros(Tail(ds)) ELSE ds

\* The number with digits ds does not overflow a u32.
fits_u32(ds) ==
    LET d == strip_zeros(ds)
    IN  \/ Len(d) < Len(U32_MAX_DIGITS)
        \/ /\ Len(d) = Len(U32_MAX_DIGITS)
           /\ \/ d = U32_MAX_DIGITS
              \/ \E i \in 1..Len(d) :
                    /\ d[i] < U32_MAX_DIGITS[i]
                    /\ \A j \in 1..(i - 1) : d[j] = U32_MAX_DIGITS[j]

RECURSIVE to_number(_, _)
\* result = result * 10 + digit, from the left
to_number(ds, number) ==
    IF ds = <<>> THEN number ELSE to_number(Tail(ds), number * 10 + Head(ds))

\* str::parse::<u32>: an optional "+", then one digit or more, no overflow.
parse_u32(src) ==
    LET body == IF src # <<>> /\ Head(src) = "+" THEN Tail(src) ELSE src
        ds   == [i \in 1..Len(body) |-> digit_of(body[i])]
    IN  IF body = <<>> \/ \E i \in 1..Len(body) : ~is_digit(body[i]) THEN None
        ELSE IF ~fits_u32(ds) THEN None
        ELSE Some(to_number(strip_zeros(ds), 0))

\* Mutant of has_two_numbers: what follows the second number is ignored.
has_two_numbers_or_more(numbers) == Len(numbers) >= 2

\* if numbers.len() == 2
has_two_numbers(numbers) == Len(numbers) = 2

RECURSIVE read_lines(_, _)
\* for line in reader.lines(): the first bad line returns the error.
read_lines(ls, number_pairs) ==
    IF ls = <<>> THEN [kind |-> "Ok", pairs |-> number_pairs]
    ELSE LET numbers == split_whitespace(Head(ls))
         IN  IF ~has_two_numbers(numbers)
             THEN Err("Each line must contain exactly two numbers.")
             ELSE LET first  == parse_u32(numbers[1])
                      second == parse_u32(numbers[2])
                  IN  IF is_none(first) THEN Err("Failed to parse the first number.")
                      ELSE IF is_none(second) THEN Err("Failed to parse the second number.")
                      ELSE read_lines(Tail(ls),
                                      Append(number_pairs, <<unwrap(first), unwrap(second)>>))

read_number_pairs(f) ==
    IF f.kind \in {"absent", "directory"} THEN Err("Provided path is not a file")
    ELSE IF f.kind = "unreadable" THEN Err("open")
    ELSE read_lines(lines(f.content), <<>>)

\* The pairs files of the model: no file and an unreadable one; an empty
\* file; one pair; two pairs with tabs, runs of blanks and "\r\n"; a "+" and
\* leading zeros; a second line with one number; three numbers; a letter; a
\* negative number; an empty line between two pairs; 2^32 and 2^31 - 1.
PairsFiles ==
    {[kind |-> "absent"], [kind |-> "unreadable"]} \cup
    {TxtFile(c) : c \in
        {<<>>,
         <<"5", " ", "9", "\n">>,
         <<" ", "5", "\t", "9", " ", "\r", "\n", "7", " ", " ", "1">>,
         <<"+", "5", " ", "0", "0", "9", "\n", "5", " ", "9">>,
         <<"9", " ", "5", "\n", "5">>,
         <<"5", " ", "9", " ", "1">>,
         <<"5", " ", "x">>,
         <<"-", "5", " ", "9">>,
         <<"5", " ", "9", "\n", "\n", "7", " ", "1">>,
         <<"4", "2", "9", "4", "9", "6", "7", "2", "9", "6", " ", "1">>,
         <<"1", " ", "2", "1", "4", "7", "4", "8", "3", "6", "4", "7">>}}

(***************************************************************************)
(* merge_posts, one action per step between two awaits.                    *)
(***************************************************************************)
\* What get_post can answer: an error, or a post with or without a version.
GetPostResponses ==
    {Err("Transport")} \cup
    {[kind |-> "Ok", version |-> v] : v \in {None} \cup {Some(k) : k \in 1..MaxVersion}}

\* What merge_post can answer.
MergePostResponses == {[kind |-> "Ok"], Err("VersionConflict"), Err("Transport")}

InitMerge ==
    /\ UploadIdle
    /\ RetryIdle
    /\ SourceIdle
    /\ config \in {c \in Configs : c.retry_attempts = 0 /\ c.timeout = 30
                                      /\ ~c.delete_folder /\ ~c.delete_files_in_progress}
    /\ pairs_file \in PairsFiles
    /\ mpc = "read"
    /\ posts_ids = <<>>
    /\ merged_ids = <<>>
    /\ pair = 1
    /\ remove_post_version = None
    /\ merge_to_version = None
    /\ merge_result = None
    /\ merge_ret = None
    /\ merge_log = <<>>
    /\ merge_sleeps = <<>>

\* post_utils::read_number_pairs(path)?, and merged_ids.
ReadNumberPairs ==
    /\ mpc = "read"
    /\ LET r == read_number_pairs(pairs_file)
       IN  IF r.kind = "Err"
           THEN /\ merge_ret' = r
                /\ mpc' = "done"
                /\ UNCHANGED <<posts_ids, merged_ids>>
           ELSE /\ posts_ids' = r.pairs
                /\ merged_ids' = [i \in 1..Len(r.pairs) |-> r.pairs[i][2]]
                /\ mpc' = "for"
                /\ UNCHANGED merge_ret
    /\ UNCHANGED <<pairs_file, pair, remove_post_version, merge_to_version, merge_result,
                   merge_log, merge_sleeps>>
    /\ UNCHANGED <<config, upload_vars, retry_vars, source_vars>>

\* for (remove_post, merge_to_post) in posts_ids: the head of an iteration,
\* and Ok(merged_ids) after the loop.
ForEachPair ==
    /\ mpc = "for"
    /\ IF pair <= Len(posts_ids)
       THEN /\ mpc' = "get_remove_post"
            /\ merge_ret' = merge_ret
       ELSE /\ mpc' = "done"
            /\ merge_ret' = [kind |-> "Ok", ids |-> merged_ids]
    /\ remove_post_version' = None
    /\ merge_to_version' = None
    /\ merge_result' = None
    /\ UNCHANGED <<pairs_file, posts_ids, merged_ids, pair, merge_log, merge_sleeps>>
    /\ UNCHANGED <<config, upload_vars, retry_vars, source_vars>>

\* Mutant of version_ok_or: a post without a version counts as version 0.
version_or_zero(version, message) ==
    [kind |-> "Ok", value |-> IF is_some(version) THEN unwrap(version) ELSE 0]

\* .version.ok_or_else(|| IOError(InvalidData, message))
version_ok_or(version, message) ==
    IF is_some(version) THEN [kind |-> "Ok", value |-> unwrap(version)] ELSE Err(message)

\* get_post(remove_post) answered.
GetRemovePost ==
    /\ mpc = "get_remove_post"
    /\ \E r \in GetPostResponses :
          LET v == IF r.kind = "Err" THEN r
                   ELSE version_ok_or(r.version, "Missing remove_post version.")
          IN  /\ merge_log' = Append(merge_log,
                     [pair |-> pair, op |-> "get_post", id |-> posts_ids[pair][1],
                      response |-> r])
              /\ IF v.kind = "Err"
                 THEN /\ merge_result' = v
                      /\ mpc' = "if"
                      /\ UNCHANGED remove_post_version
                 ELSE /\ remove_post_version' = Some(v.value)
                      /\ mpc' = "get_merge_to_post"
                      /\ UNCHANGED merge_result
    /\ UNCHANGED <<pairs_file, posts_ids, merged_ids, pair, merge_to_version, merge_ret,
                   merge_sleeps>>
    /\ UNCHANGED <<config, upload_vars, retry_vars, source_vars>>

\* get_post(merge_to_post) answered; with both versions the merge is requested.
GetMergeToPost ==
    /\ mpc = "get_merge_to_post"
    /\ \E r \in GetPostResponses :
          LET v == IF r.kind = "Err" THEN r
                   ELSE version_ok_or(r.version, "Missing merge_to_post version.")
          IN  /\ merge_log' = Append(merge_log,
                     [pair |-> pair, op |-> "get_post", id |-> posts_ids[pair][2],
                      response |-> r])
              /\ IF v.kind = "Err"
                 THEN /\ merge_result' = v
                      /\ mpc' = "if"
                      /\ UNCHANGED merge_to_version
                 ELSE /\ merge_to_version' = Some(v.value)
                      /\ mpc' = "merge_post"
                      /\ UNCHANGED merge_result
    /\ UNCHANGED <<pairs_file, posts_ids, merged_ids, pair, remove_post_version, merge_ret,
                   merge_sleeps>>
    /\ UNCHANGED <<config, upload_vars, retry_vars, source_vars>>

\* let merge = MergePost { .. }
MergePost ==
    [remove_post_version |-> unwrap(remove_post_version),
     remove_post |-> posts_ids[pair][1],
     merge_to_version |-> unwrap(merge_to_version),
     merge_to_post |-> posts_ids[pair][2],
     replace_post_content |-> FALSE]

\* merge_post(&merge) answered: the result of the pair.
MergePostReturns ==
    /\ mpc = "merge_post"
    /\ \E r \in MergePostResponses :
          /\ merge_log' = Append(merge_log,
                 [pair |-> pair, op |-> "merge_post", merge |-> MergePost, response |-> r])
          /\ merge_result' = r
    /\ mpc' = "if"
    /\ UNCHANGED <<pairs_file, posts_ids, merged_ids, pair, remove_post_version,
                   merge_to_version, merge_ret, merge_sleeps>>
    /\ UNCHANGED <<config, upload_vars, retry_vars, source_vars>>

\* if let Err(e) = result.await: return it unless skip_on_error.
MatchMergeResult ==
    /\ mpc = "if"
    /\ IF merge_result.kind = "Err" /\ ~config.skip_on_error
       THEN /\ merge_ret' = merge_result
            /\ mpc' = "done"
       ELSE /\ merge_ret' = merge_ret
            /\ mpc' = "sleep"
    /\ UNCHANGED <<pairs_file, posts_ids, merged_ids, pair, remove_post_version,
                   merge_to_version, merge_result, merge_log, merge_sleeps>>
    /\ UNCHANGED <<config, upload_vars, retry_vars, source_vars>>

\* sleep(Duration::from_millis(config.settings.timeout)), then the next pair.
MergeSleep ==
    /\ mpc = "sleep"
    /\ merge_sleeps' = Append(merge_sleeps, [pair |-> pair, ms |-> config.timeout])
    /\ pair' = pair + 1
    /\ mpc' = "for"
    /\ UNCHANGED <<pairs_file, posts_ids, merged_ids, remove_post_version,
                   merge_to_version, merge_result, merge_ret, merge_log>>
    /\ UNCHANGED <<config, upload_vars, retry_vars, source_vars>>

NextMerge ==
    \/ ReadNumberPairs
    \/ ForEachPair
    \/ GetRemovePost
    \/ GetMergeToPost
    \/ MergePostReturns
    \/ MatchMergeResult
    \/ MergeSleep

SpecMerge == InitMerge /\ [][NextMerge]_vars

(***************************************************************************)
(* merge_source on its own, applied to every pair of short sources.        *)
(***************************************************************************)
\* The longest source text.
MaxSourceLen == 3

\* The source texts: the texts of two letters and the line break.
SourceTexts ==
    UNION {[1..n -> {"u", "v", "\n"}] : n \in 0..MaxSourceLen}

InitSource ==
    /\ UploadIdle
    /\ RetryIdle
    /\ MergeIdle
    /\ config \in {c \in Configs : c.retry_attempts = 0 /\ c.timeout = 0
                                      /\ ~c.skip_on_error /\ ~c.delete_folder
                                      /\ ~c.delete_files_in_progress}
    /\ opt1 \in {None} \cup {Some(t) : t \in SourceTexts}
    /\ opt2 \in {None} \cup {Some(t) : t \in SourceTexts}
    /\ merged_source = None

\* merge_source(opt1, opt2) returns, the lines in one of the orders of the
\* HashSet.
ApplyMergeSource ==
    /\ merged_source = None
    /\ \E r \in merge_source(opt1, opt2) : merged_source' = Some(r)
    /\ UNCHANGED <<opt1, opt2>>
    /\ UNCHANGED <<config, upload_vars, retry_vars, merge_vars>>

NextSource == ApplyMergeSource

SpecSource == InitSource /\ [][NextSource]_vars

(***************************************************************************)
(* What the properties read from the log of a create_post call.            *)
(***************************************************************************)
requests(op) == SelectSeq(sent, LAMBDA r : r.op = op)

\* The call is over: it returned to the match, or it panicked.
call_over == pc \in {"match", "panicked"}

\* The reverse search of the call reported an exact match.
exact_reported == sent # <<>> /\ is_some(sent[1].exact_id)

\* The temporary upload answered and the draft was built from the sidecars.
draft_built == Len(sent) >= 2 /\ is_some(sent[2].token) /\ sent[2].made = "Ok"

(***************************************************************************)
(* C1.  As claimed: in a create_post call whose reverse search reports an  *)
(* exact match with id X, exactly one update keyed by X is sent and no     *)
(* create, whatever the sidecars and the similar matches are.  A call      *)
(* whose temporary upload fails refutes it: it sends no update.            *)
(***************************************************************************)
C1_ExactlyOneUpdateAlways ==
    (call_over /\ exact_reported) =>
        /\ Len(requests("update")) = 1
        /\ requests("update")[1].id = sent[1].exact_id
        /\ requests("create") = <<>>

\* C1, amended: in a create_post call whose reverse search reports an exact
\* match with id X, no create is sent and at most one update, keyed by X; the
\* call sends exactly one update when the temporary upload answers and the
\* draft is built from the sidecars, and none when one of them fails.
C1_ExactMatchUpdatesNeverCreates ==
    exact_reported =>
        /\ requests("create") = <<>>
        /\ Len(requests("update")) <= 1
        /\ \A i \in 1..Len(requests("update")) : requests("update")[i].id = sent[1].exact_id
        /\ call_over => (Len(requests("update")) = 1 <=> draft_built)
        /\ (pc = "match" /\ result.kind = "Ok") => Len(requests("update")) = 1

\* C1, witness: a call with similar matches and tags in the sidecar returned
\* Ok after one update of the exact match 42.
C1_Witness ==
    /\ pc = "match"
    /\ result.kind = "Ok"
    /\ Len(sent) = 3
    /\ sent[1].exact_id = Some(42)
    /\ sent[3].op = "update"
    /\ sent[3].id = Some(42)
    /\ is_some(sent[3].draft.relations)
    /\ is_some(sent[3].draft.tags)

(***************************************************************************)
(* What the properties read from the state of upload_posts.                *)
(***************************************************************************)
\* upload_posts gave up on the current file: it skipped it, or it returned
\* the error.
gave_up == (pc = "pace" /\ result.kind = "Err") \/ (pc = "done" /\ ret.kind = "Err")

\* What the caller of upload_posts holds once it returned: Ok(post_ids)
\* carries the ids, Err(e) carries the error alone.
returned_ids == IF "ids" \in DOMAIN ret THEN Some(ret.ids) ELSE None

returned_error == IF "err" \in DOMAIN ret THEN Some(ret.err) ELSE None

\* The files, and the ids, of the create_post calls that returned Ok.
succeeded_files == [i \in 1..Len(succeeded) |-> succeeded[i][1]]

succeeded_ids == [i \in 1..Len(succeeded) |-> succeeded[i][2]]

\* The first k files of the list.
first_files(k) == {files[i] : i \in {j \in 1..Len(files) : j <= k}}

Increasing(s) == \A i, j \in 1..Len(s) : i < j => s[i] < s[j]

\* C2: when upload_posts gives up on a file, every create_post call for it
\* having failed, it has called create_post for that file exactly
\* retry_attempts + 1 times; before that it never called it more often, and
\* the count of a file does not include the calls for the files before it.
C2_AttemptsAreRetriesPlusOne ==
    /\ gave_up => attempts = config.retry_attempts + 1
    /\ attempts <= config.retry_attempts + 1
    /\ pc \in {"call", "reverse_search", "upload", "update", "create", "match"}
          => attempts = retries + (IF pc = "call" THEN 0 ELSE 1)

\* C2, witness: the second file is skipped after 3 failed calls with
\* retry_attempts = 2, the first file having used calls of its own.
C2_Witness ==
    /\ gave_up
    /\ config.retry_attempts = 2
    /\ count = 2
    /\ attempts = 3
    /\ total_attempts > 3

\* C3: when skip_on_error is false and a file exhausts its retries, the
\* caller of upload_posts receives the error and the ids of the files that
\* succeeded before.
C3_AbortReturnsErrorAndIds ==
    (pc = "done" /\ ~config.skip_on_error /\ gave_up /\ post_ids # <<>>) =>
        /\ is_some(returned_error)
        /\ returned_ids = Some(post_ids)

\* C4: with skip_on_error set, upload_posts returns Ok after create_post was
\* called for every file, in list order, and the ids it returns are those of
\* the files whose create_post returned Ok, one each, in file order.
C4_SkipContinuesBatch ==
    config.skip_on_error =>
        /\ first_files(count - 1) \subseteq attempted
        /\ attempted \subseteq first_files(count)
        /\ pc = "done" =>
              /\ ret.kind = "Ok"
              /\ attempted = Range(files)
              /\ ret.ids = succeeded_ids
              /\ Increasing(succeeded_files)

\* C4, witness: the first of two files was skipped after two failed calls,
\* the second uploaded.
C4_Witness ==
    /\ pc = "done"
    /\ config.skip_on_error
    /\ config.retry_attempts = 1
    /\ files = <<1, 2>>
    /\ attempted = {1, 2}
    /\ succeeded_files = <<2>>
    /\ ret.ids = <<100>>

\* C5: once a create request was sent for a file, no retry sends a second
\* create request for that file.
C5_NoSecondCreateRequest == creates <= 1

(***************************************************************************)
(* What the properties read from the last request of a create_post call,   *)
(* while create_post waits for its response.                               *)
(***************************************************************************)
last_request == sent[Len(sent)]

\* The set of the elements of an optional vector.
set_of(opt) == IF is_some(opt) THEN Range(unwrap(opt)) ELSE {}

\* The tags of the remote post: the first name of each tag that has one.
remote_tags == {t[1] : t \in {x \in set_of(unwrap(exact_post).tags) : x # <<>>}}

\* The ids of the relations of the remote post.
remote_relations == {r.id : r \in set_of(unwrap(exact_post).relations)}

\* m lists the elements of U once each, and is None when U is empty.
lists_once(m, U) ==
    IF U = {} THEN m = None ELSE is_some(m) /\ Range(unwrap(m)) = U /\ NoDup(unwrap(m))

\* The safety the sidecars of a file supply.
sidecar_safety(sc) == IF sc.json.kind = "value" THEN json_safety(sc.json.value) ELSE None

\* C6: an update carries the version the reverse search of the same
\* create_post call delivered, whatever versions earlier calls for the file
\* held; and when the update fails on a version mismatch, create_post returns
\* that error.
C6_UpdateCarriesVersionOfItsSearch ==
    /\ \A i \in 1..Len(requests("update")) :
          /\ is_some(sent[1].exact_version)
          /\ requests("update")[i].post.version = sent[1].exact_version
    /\ pc = "update" => last_request.post.version = unwrap(exact_post).version
    /\ (pc = "match" /\ requests("update") # <<>>
            /\ last_request.response = Some(Err("VersionConflict")))
          => result = Err("VersionConflict")

\* C6, witness: the second call for a file sent its update with version 2
\* after the first call had held version 1; the update failed on a version
\* mismatch and the call returned that error.
C6_Witness ==
    /\ pc = "match"
    /\ attempts = 2
    /\ Some(1) \in held
    /\ requests("update") # <<>>
    /\ last_request.post.version = Some(2)
    /\ last_request.response = Some(Err("VersionConflict"))
    /\ result = Err("VersionConflict")

\* C7: the tags an update submits list the union of the tags of the remote
\* post and of the draft, each once, and are None when the union is empty;
\* so do the relations; and merging the draft into the merged list a second
\* time gives the same set.
C7_MergeIsUnionWithoutDuplicates ==
    pc = "update" =>
        LET tags      == remote_tags \cup set_of(last_request.draft.tags)
            relations == remote_relations \cup set_of(last_request.draft.relations)
        IN  /\ lists_once(last_request.post.tags, tags)
            /\ lists_once(last_request.post.relations, relations)
            /\ \A again \in merge_vecs_unique(last_request.post.tags,
                                              last_request.draft.tags) :
                  lists_once(again, tags)
            /\ \A again \in merge_vecs_unique(last_request.post.relations,
                                              last_request.draft.relations) :
                  lists_once(again, relations)

\* C7, witness: remote tags a, b (a reported twice) and draft tags b, c are
\* submitted as three tags, and the remote relations 8, 7 with the draft
\* relation 7 as two.
C7_Witness ==
    /\ pc = "update"
    /\ remote_tags = {T_a, T_b}
    /\ last_request.draft.tags = Some(<<T_b, T_c>>)
    /\ Range(unwrap(last_request.post.tags)) = {T_a, T_b, T_c}
    /\ Len(unwrap(last_request.post.tags)) = 3
    /\ last_request.draft.relations = Some(<<7>>)
    /\ Len(unwrap(last_request.post.relations)) = 2

\* C8: the relations of the draft are the ids of the similar matches at
\* distance 0.75 or more, and no other id.
C8_RelationsAreSimilarAtThreshold ==
    pc \in {"update", "create"} =>
        set_of(last_request.draft.relations)
            = {unwrap(m.post.id) : m \in {x \in Range(similar_posts) : x.distance >= 7500}}

\* C8, witness: of the similar matches 7 at 0.75 and 8 at 0.7499, 7 alone is
\* a relation of the draft.
C8_Witness ==
    /\ pc \in {"update", "create"}
    /\ similar_posts = <<Similar(7, 7500), Similar(8, 7499)>>
    /\ last_request.draft.relations = Some(<<7>>)

\* C9: an update submits the safety of the sidecar when the sidecar supplies
\* one, otherwise the safety of the remote post when it has one, otherwise
\* Unsafe.
C9_UpdateSafetyPrecedence ==
    pc = "update" =>
        last_request.post.safety =
            IF is_some(sidecar_safety(last_request.sidecar))
            THEN sidecar_safety(last_request.sidecar)
            ELSE IF is_some(unwrap(exact_post).safety) THEN unwrap(exact_post).safety
            ELSE Some("Unsafe")

\* C10: every submitted draft has a safety; it is Unsafe when the sidecars
\* supply none (an unrecognized safety or rating included) and there is no
\* remote post, or the remote post has none.
C10_SubmittedSafetyDefaultsToUnsafe ==
    pc \in {"update", "create"} =>
        /\ is_some(last_request.post.safety)
        /\ (/\ is_none(sidecar_safety(last_request.sidecar))
            /\ (is_none(exact_post) \/ is_none(unwrap(exact_post).safety)))
              => last_request.post.safety = Some("Unsafe")

\* C10, witness: a create whose sidecar has the unrecognized rating "x" and
\* no safety submits Unsafe.
C10_Witness ==
    /\ pc = "create"
    /\ last_request.sidecar.json.kind = "value"
    /\ last_request.sidecar.json.value.rating = JStr(<<"x">>)
    /\ as_str(last_request.sidecar.json.value.safety) = None
    /\ last_request.post.safety = Some("Unsafe")

\* C12: a create_post call that returned the parse error of a malformed
\* sidecar is not followed by another create_post call for the file.
C12_ParseErrorNotRetried ==
    (pc = "call" /\ retries > 0) => result # Err("ResponseParsingError")

\* The waits, in ms, before the retries of the current file, and the pacing
\* sleeps after it.
retry_waits == SelectSeq(sleeps, LAMBDA z : z.kind = "retry")

pacing_sleeps == SelectSeq(sleeps, LAMBDA z : z.kind = "pace")

\* C17: the wait before the k-th retry of a file is the configured timeout
\* multiplied by k, and the waits of one file strictly increase.
C17_RetryWaitIsTimeoutTimesK ==
    /\ \A k \in 1..Len(retry_waits) : retry_waits[k].ms = config.timeout * k
    /\ \A j, k \in 1..Len(retry_waits) : j < k => retry_waits[j].ms < retry_waits[k].ms

\* C18: upload_posts sleeps the configured timeout exactly once after every
\* file, whether it succeeded, was skipped or aborted the batch.
C18_PacingAfterEveryFile ==
    /\ Len(pacing_sleeps) <= 1
    /\ \A i \in 1..Len(pacing_sleeps) : pacing_sleeps[i].ms = config.timeout
    /\ (pc = "for" /\ count > 1) => Len(pacing_sleeps) = 1
    /\ (pc = "done" /\ files # <<>>) => Len(pacing_sleeps) = 1

\* C19: in a create_post call the requests are the reverse search, then the
\* temporary upload, then one update or create, the draft being built from
\* the sidecars after the upload answered and before that last request; a
\* failed step ends the call, and a call that returns Ok has sent all three.
C19_StepsInOrder ==
    /\ Len(sent) <= 3
    /\ Len(sent) >= 1 => sent[1].op = "reverse_search"
    /\ Len(sent) >= 2 => (sent[1].answered /\ sent[2].op = "upload")
    /\ Len(sent) >= 3 =>
          /\ is_some(sent[2].token)
          /\ sent[2].made = "Ok"
          /\ sent[3].op \in {"update", "create"}
          /\ sent[3].draft.content_token = sent[2].token
          /\ make_post_with_metadata(unwrap(sent[2].token), sent[3].sidecar).kind = "Ok"
    /\ pc = "panicked" => (Len(sent) = 2 /\ sent[2].made = "Panic")
    /\ (pc = "match" /\ result.kind = "Ok") => Len(sent) = 3
    /\ (pc = "match" /\ result.kind = "Err") =>
          \/ Len(sent) = 1 /\ ~sent[1].answered
          \/ Len(sent) = 2 /\ is_none(sent[2].token)
          \/ Len(sent) = 2 /\ sent[2].made = "Err"
                           /\ result.err \in {"IOError", "ResponseParsingError"}
          \/ Len(sent) = 3 /\ sent[3].response = Some(result)

\* C19, witness: a call whose sidecar is malformed returned the parse error
\* after the reverse search and the upload, with no create or update.
C19_Witness ==
    /\ pc = "match"
    /\ result = Err("ResponseParsingError")
    /\ Len(sent) = 2
    /\ sent[1].answered
    /\ is_some(sent[2].token)

\* The media files and sidecars removed of the file f.
deleted_of(f) == {d \in deleted : d.file = f}

\* C20: a media file and its sidecars are removed only after create_post
\* returned Ok for that file and only when delete_files_in_progress is set;
\* nothing of a file is removed while its calls are under way, nor when
\* upload_posts gave up on it.
C20_DeletedOnlyAfterSuccess ==
    /\ \A d \in deleted : d.file \in Range(succeeded_files)
    /\ ~config.delete_files_in_progress => deleted = {}
    /\ pc \in {"call", "reverse_search", "upload", "update", "create", "match", "panicked"}
          => deleted_of(file) = {}
    /\ gave_up => deleted_of(file) = {}

\* C20, witness: of two files the first was skipped and keeps its files, the
\* second was uploaded and removed with both sidecars.
C20_Witness ==
    /\ pc = "done"
    /\ files = <<1, 2>>
    /\ succeeded_files = <<2>>
    /\ deleted = delete_file(2, {"media", "json", "txt"})

(***************************************************************************)
(* What the properties read from the log of merge_posts.                   *)
(***************************************************************************)
\* The requests of one kind sent for the pair i.
merge_requests(i, op) == SelectSeq(merge_log, LAMBDA e : e.pair = i /\ e.op = op)

\* get_post answered with a post that has no version.
lacks_version(e) ==
    e.op = "get_post" /\ e.response.kind = "Ok" /\ is_none(e.response.version)

\* The merge-into ids of the pairs whose merge request succeeded, in order.
merged_into ==
    LET ok == SelectSeq(merge_log, LAMBDA e : e.op = "merge_post" /\ e.response.kind = "Ok")
    IN  [i \in 1..Len(ok) |-> ok[i].merge.merge_to_post]

\* C13: a merge request follows the two get_post answers of its pair, carries
\* the versions they delivered and replace_post_content = false; after a post
\* without a version nothing more is sent for the pair, and the pair fails
\* with the missing-version error; no pair is fetched or merged twice.
C13_MissingVersionFailsPair ==
    /\ \A k \in 1..Len(merge_log) :
          LET e == merge_log[k]
          IN  /\ e.op = "merge_post" =>
                    /\ k >= 3
                    /\ LET a == merge_log[k - 2]
                           b == merge_log[k - 1]
                       IN  /\ a.pair = e.pair /\ a.op = "get_post"
                           /\ b.pair = e.pair /\ b.op = "get_post"
                           /\ a.response.kind = "Ok" /\ is_some(a.response.version)
                           /\ b.response.kind = "Ok" /\ is_some(b.response.version)
                           /\ e.merge =
                                 [remove_post_version |-> unwrap(a.response.version),
                                  remove_post |-> posts_ids[e.pair][1],
                                  merge_to_version |-> unwrap(b.response.version),
                                  merge_to_post |-> posts_ids[e.pair][2],
                                  replace_post_content |-> FALSE]
              /\ lacks_version(e) =>
                    /\ \A j \in (k + 1)..Len(merge_log) : merge_log[j].pair # e.pair
                    /\ (pair = e.pair /\ mpc = "if") =>
                          merge_result \in {Err("Missing remove_post version."),
                                            Err("Missing merge_to_post version.")}
    /\ \A i \in 1..Len(posts_ids) :
          /\ Len(merge_requests(i, "get_post")) <= 2
          /\ Len(merge_requests(i, "merge_post")) <= 1

\* C13, witness: the post to remove has version 2, the post to merge into has
\* none; the pair failed with the missing-version error and no merge request.
C13_Witness ==
    /\ mpc = "if"
    /\ Len(merge_log) = 2
    /\ merge_log[1].response = [kind |-> "Ok", version |-> Some(2)]
    /\ lacks_version(merge_log[2])
    /\ merge_result = Err("Missing merge_to_post version.")

\* The lines of the pairs file and the tokens of a line.
pair_lines == lines(pairs_file.content)

numbers_of(i) == split_whitespace(pair_lines[i])

\* A token of digits only; a token of digits after an optional sign; the
\* digits of a token without its sign.
is_unsigned(t) == t # <<>> /\ \A i \in 1..Len(t) : is_digit(t[i])

unsigned_part(t) == IF t # <<>> /\ Head(t) \in {"+", "-"} THEN Tail(t) ELSE t

is_integer(t) == is_unsigned(unsigned_part(t))

digits_of(t) == [i \in 1..Len(unsigned_part(t)) |-> digit_of(unsigned_part(t)[i])]

\* An unsigned integer below 2^32, with or without a leading "+".
is_u32(t) ==
    /\ is_integer(t)
    /\ Head(t) # "-"
    /\ fits_u32(digits_of(t))

\* read_number_pairs has returned.
pairs_read == mpc \notin {"idle", "read"} /\ pairs_file.kind = "text"

\* posts_ids holds the pair of every line, in line order.
pairs_in_line_order ==
    /\ Len(posts_ids) = Len(pair_lines)
    /\ \A i \in 1..Len(pair_lines) :
          posts_ids[i] = <<to_number(strip_zeros(digits_of(numbers_of(i)[1])), 0),
                           to_number(strip_zeros(digits_of(numbers_of(i)[2])), 0)>>

\* merge_posts returned the error of the read without a request.
read_failed_without_request ==
    mpc = "done" /\ merge_ret.kind = "Err" /\ merge_log = <<>> /\ posts_ids = <<>>

\* C14.  As claimed: read_number_pairs returns the pairs in line order when
\* every line holds exactly two whitespace-separated unsigned integers, and
\* fails for the whole file, with no request of merge_posts, when a line holds
\* another number of tokens or a token that is no integer.  A line with 2^32
\* refutes it: the read fails.
C14_TwoUnsignedIntegersPerLine ==
    pairs_read =>
        /\ (\A i \in 1..Len(pair_lines) :
                /\ Len(numbers_of(i)) = 2
                /\ \A t \in 1..2 : is_unsigned(numbers_of(i)[t]))
              => pairs_in_line_order
        /\ (\E i \in 1..Len(pair_lines) :
                \/ Len(numbers_of(i)) # 2
                \/ \E t \in 1..2 : ~is_integer(numbers_of(i)[t]))
              => read_failed_without_request

\* C14, amended: read_number_pairs returns the pairs in line order when every
\* line holds exactly two whitespace-separated unsigned integers below 2^32
\* (a leading "+" allowed), and fails for the whole file, with no request of
\* merge_posts, when any line holds anything else.
C14_TwoU32PerLine ==
    pairs_read =>
        IF \A i \in 1..Len(pair_lines) :
              /\ Len(numbers_of(i)) = 2
              /\ \A t \in 1..2 : is_u32(numbers_of(i)[t])
        THEN pairs_in_line_order
        ELSE read_failed_without_request

\* C14, witness: a file whose second line holds one number, after a valid
\* first line: the read failed and merge_posts sent nothing.
C14_Witness ==
    /\ pairs_file = TxtFile(<<"9", " ", "5", "\n", "5">>)
    /\ mpc = "done"
    /\ merge_ret = Err("Each line must contain exactly two numbers.")
    /\ merge_log = <<>>

\* C15: with skip_on_error set, the ids merge_posts returns are the
\* merge-into ids of the pairs whose merge request succeeded, and of no other
\* pair.
C15_ReturnedIdsAreMergedPairs ==
    (mpc = "done" /\ config.skip_on_error /\ merge_ret.kind = "Ok")
        => merge_ret.ids = merged_into

\* C21: delete_folder is attempted only when delete_folder is set and
\* create_post returned Ok for every file of the list; not when a file was
\* skipped.
C21_FolderRemovedOnlyAfterFullSuccess ==
    folder_attempted =>
        /\ config.delete_folder
        /\ Range(succeeded_files) = Range(files)

\* C22: the tags of every draft submitted, by a create or by an update, hold
\* no tag twice.
C22_SubmittedTagsHaveNoDuplicate ==
    pc \in {"update", "create"} =>
        (is_some(last_request.post.tags) => NoDup(unwrap(last_request.post.tags)))

\* C23: the source of every draft submitted, by a create or by an update,
\* holds no line twice; the same `source` and `url` give the line once.
C23_SubmittedSourceHasNoDuplicateLine ==
    pc \in {"update", "create"} =>
        (is_some(last_request.post.source) => NoDup(lines(unwrap(last_request.post.source))))

\* C26: with retry_count = 0 retry never invokes func and returns "Max retry
\* attempts reached"; with retry_count >= 1 it invokes func at least once
\* before it returns, and never returns that error.
C26_FallbackErrorOnlyForZeroRetryCount ==
    /\ api_client.retry_count = 0 =>
          /\ calls = <<>>
          /\ rpc \in {"for", "done"}
          /\ rpc = "done" => retry_ret = MAX_RETRY_ATTEMPTS_REACHED
    /\ (api_client.retry_count >= 1 /\ rpc = "done") =>
          /\ Len(calls) >= 1
          /\ retry_ret = calls[Len(calls)]
          /\ retry_ret # MAX_RETRY_ATTEMPTS_REACHED

\* C26, witness: an ApiClient with retry_count = 0 returned the error without
\* an invocation of func.
C26_Witness ==
    /\ rpc = "done"
    /\ api_client.retry_count = 0
    /\ calls = <<>>
    /\ retry_ret = MAX_RETRY_ATTEMPTS_REACHED

\* upload_posts is over: it returned, or a panic unwound it.
upload_over == pc \in {"done", "panicked"}

\* C25: upload_posts terminates; it calls create_post at most
\* retry_attempts + 1 times for a file and at most as many times the number
\* of files in all, and it never goes back to a file it has left.
C25_UploadPostsTerminates ==
    /\ [](/\ attempts <= config.retry_attempts + 1
          /\ total_attempts <= Len(files) * (config.retry_attempts + 1)
          /\ attempted \subseteq first_files(count))
    /\ [][count' >= count]_vars
    /\ <>upload_over

\* C25, witness: a batch of two files with retry_attempts = 2 is over after
\* six calls of create_post.
C25_Witness ==
    /\ pc = "done"
    /\ Len(files) = 2
    /\ config.retry_attempts = 2
    /\ total_attempts = 6

\* The lines of both sources.
lines_of_both ==
    (IF is_some(opt1) THEN Range(lines(unwrap(opt1))) ELSE {})
        \cup (IF is_some(opt2) THEN Range(lines(unwrap(opt2))) ELSE {})

\* C24.  As claimed: the lines of the text merge_source returns are the lines
\* of both sources, each once, joined by newlines, and it returns None when
\* there is no line.  Sources whose only line is empty refute it: the text
\* returned is empty and has no line.
C24_MergedLinesAreTheUnion ==
    is_some(merged_source) =>
        LET m == unwrap(merged_source)
        IN  IF lines_of_both = {} THEN m = None
            ELSE /\ is_some(m)
                 /\ Range(lines(unwrap(m))) = lines_of_both
                 /\ NoDup(lines(unwrap(m)))
                 /\ unwrap(m) = join(lines(unwrap(m)), <<"\n">>)

\* C24, amended: merge_source returns None when the sources have no line;
\* otherwise the pieces of the returned text between its newlines are the
\* lines of both sources, each once; and when none of those lines is empty,
\* they are the lines of the returned text.
C24_MergedPiecesAreTheUnion ==
    is_some(merged_source) =>
        LET m == unwrap(merged_source)
        IN  IF lines_of_both = {} THEN m = None
            ELSE /\ is_some(m)
                 /\ Range(split(unwrap(m), "\n")) = lines_of_both
                 /\ NoDup(split(unwrap(m), "\n"))
                 /\ <<>> \notin lines_of_both =>
                       /\ Range(lines(unwrap(m))) = lines_of_both
                       /\ NoDup(lines(unwrap(m)))

\* C24, witness: the remote source u, v and the draft source v are merged
\* into the two lines v, u.
C24_Witness ==
    /\ opt1 = Some(<<"u", "\n", "v">>)
    /\ opt2 = Some(<<"v">>)
    /\ merged_source = Some(Some(<<"v", "\n", "u">>))

=============================================================================
